---- MODULE Spec2Model ----
(***************************************************************************)
(* readfacevmd: read_face_vmd and the per-frame channel mapper of          *)
(* src/readfacevmd.cc.                                                     *)
(*                                                                         *)
(* Numbers.  Action-unit intensities and morph weights are doubles and     *)
(* floats in the source.  They are modelled in fixed point, 100 units to   *)
(* 1.0, so 1.0 is One, 0.2 is BlinkThreshold and 0.1 is MouthEpsilon.  The *)
(* raw intensities fed in are multiples of ACTION_UNIT_MAXVAL units, which *)
(* makes the division of get_action_unit exact.                            *)
(*                                                                         *)
(* Names.  Bone and morph names are UTF-8 literals in the source; they are *)
(* written here in ASCII (romaji).  Rotations and positions are kept as    *)
(* tags, since no quaternion arithmetic is expressible here.               *)
(***************************************************************************)
EXTENDS Integers, Sequences, FiniteSets, TLC

\* Longest input stream explored, in frames.
MaxFrames == 3

(***************************************************************************)
(* Constants of the source                                                 *)
(***************************************************************************)
InnerBrowRaiser == 1
OuterBrowRaiser == 2
BrowLowerer == 4
UpperLidRaiser == 5
CheekRaiser == 6
LidTightener == 7
NoseWrinkler == 9
UpperLipRaiser == 10
LipCornerPuller == 12
Dimpler == 14
LipCornerDepressor == 15
ChinRaiser == 17
LipStrecher == 20
LipTightener == 23
LipPart == 25
JawDrop == 26
LipSuck == 28
Blink == 45
AU_SIZE == 46
ACTION_UNIT_MAXVAL == 5

\* 1.0, the upper clamp of add_morph_frame and the forced blink weight.
One == 100
\* 0.2, the blink override threshold.
BlinkThreshold == 20
\* 0.1, the bound on "a" and "u" under which "i" is computed.
MouthEpsilon == 10

\* The identifiers of enum AUID.
AUID ==
  { InnerBrowRaiser, OuterBrowRaiser, BrowLowerer, UpperLidRaiser, CheekRaiser,
    LidTightener, NoseWrinkler, UpperLipRaiser, LipCornerPuller, Dimpler,
    LipCornerDepressor, ChinRaiser, LipStrecher, LipTightener, LipPart,
    JawDrop, LipSuck, Blink }

\* The index range of double au[AU_SIZE] and bool valid[AU_SIZE].
AuIndex == 0 .. (AU_SIZE - 1)

(***************************************************************************)
(* Action-unit labels: "AU" followed by the number, as the face analyser   *)
(* names them.  A label is a sequence of characters.                       *)
(***************************************************************************)
DigitChars == <<"0", "1", "2", "3", "4", "5", "6", "7", "8", "9">>

\* The value of a decimal digit character, -1 for any other character.
DigitValue(c) ==
  IF \E d \in 1 .. 10 : DigitChars[d] = c
  THEN (CHOOSE d \in 1 .. 10 : DigitChars[d] = c) - 1
  ELSE -1

\* std::string::substr(pos, len) on a sequence of characters (pos from 0).
Substr(s, pos, len) ==
  SubSeq(s, pos + 1, IF pos + len <= Len(s) THEN pos + len ELSE Len(s))

\* atoi on a string of at most two characters without sign or blanks:
\* the leading digits, 0 when there are none.
Atoi(s) ==
  IF Len(s) = 0 \/ DigitValue(s[1]) < 0 THEN 0
  ELSE IF Len(s) = 1 \/ DigitValue(s[2]) < 0 THEN DigitValue(s[1])
  ELSE 10 * DigitValue(s[1]) + DigitValue(s[2])

\* The id get_action_unit reads from a label: atoi(first.substr(2, 2)).
AuId(label) == Atoi(Substr(label, 2, 2))

\* The label the face analyser gives action unit n (two digits).
AuName(n) == <<"A", "U", DigitChars[(n \div 10) + 1], DigitChars[(n % 10) + 1]>>

(***************************************************************************)
(* get_action_unit                                                         *)
(***************************************************************************)
\* The first loop: valid[id] is set from every presence entry, in order.
\* Entries whose id is outside the array are left to OutOfRangeIds.
RECURSIVE SetValid(_, _)
SetValid(valid, presence) ==
  IF presence = <<>> THEN valid
  ELSE LET p == Head(presence)
           id == AuId(p.first)
       IN SetValid(IF id \in AuIndex
                   THEN [valid EXCEPT ![id] = (p.second # 0)]
                   ELSE valid,
                   Tail(presence))

\* The second loop: au[id] = second / ACTION_UNIT_MAXVAL where valid[id].
RECURSIVE SetIntensity(_, _, _)
SetIntensity(au, valid, intensity) ==
  IF intensity = <<>> THEN au
  ELSE LET p == Head(intensity)
           id == AuId(p.first)
       IN SetIntensity(IF id \in AuIndex /\ valid[id]
                       THEN [au EXCEPT ![id] = p.second \div ACTION_UNIT_MAXVAL]
                       ELSE au,
                       valid, Tail(intensity))

\* The ids an entry sequence names.
EntryIds(entries) == { AuId(entries[k].first) : k \in 1 .. Len(entries) }

\* The ids of the reports that index valid[] or au[] outside 0 .. AU_SIZE-1.
OutOfRangeIds(rep) ==
  (EntryIds(rep.presence) \cup EntryIds(rep.intensity)) \ AuIndex

\* The slots of valid[] that the second loop reads and the first never wrote:
\* valid[] is a local array without initialiser, so their content is
\* indeterminate.
UnsetValidIds(rep) ==
  (EntryIds(rep.intensity) \ EntryIds(rep.presence)) \cap AuIndex

\* The array get_action_unit leaves in au, given the indeterminate content
\* of valid[] (stale: the slots that happen to hold true).
get_action_unit(rep, stale) ==
  SetIntensity([i \in AuIndex |-> 0],
               SetValid([i \in AuIndex |-> i \in stale], rep.presence),
               rep.intensity)

(***************************************************************************)
(* add_morph_frame and estimate_facial_expression                          *)
(***************************************************************************)
ClampWeight_NoLowerBound(weight) ==
  IF weight > One THEN One ELSE weight

\* The two clamps of add_morph_frame.
ClampWeight(weight) ==
  IF weight > One THEN One
  ELSE IF weight < 0 THEN 0
  ELSE weight

add_morph_frame(morph_vec, name, frame_no, weight) ==
  Append(morph_vec,
         [name |-> name, frame |-> frame_no, weight |-> ClampWeight(weight)])

MouthI_Or(au) ==
  IF au[JawDrop] * 2 < MouthEpsilon \/ au[LipTightener] * 2 < MouthEpsilon
  THEN au[LipPart] * 2
  ELSE 0

\* mouth_i of estimate_facial_expression.
MouthI(au) ==
  IF au[JawDrop] * 2 < MouthEpsilon /\ au[LipTightener] * 2 < MouthEpsilon
  THEN au[LipPart] * 2
  ELSE 0

BlinkValue_AtLeast(au) ==
  IF au[Blink] >= BlinkThreshold THEN One ELSE au[LidTightener]

\* blink of estimate_facial_expression.
BlinkValue(au) ==
  IF au[Blink] > BlinkThreshold THEN One ELSE au[LidTightener]

\* The morph names, in the order estimate_facial_expression appends them.
MorphNames ==
  <<"a", "i", "u", "niyari", "wedge", "mabataki", "CheekRaiser", "bikkuri",
    "komaru", "majime", "ikari", "shita", "ue">>

\* The weight handed to add_morph_frame for the k-th morph name.
MorphValue(au, k) ==
  CASE k = 1 -> au[JawDrop] * 2
    [] k = 2 -> MouthI(au)
    [] k = 3 -> au[LipTightener] * 2
    [] k = 4 -> au[LipCornerPuller]
    [] k = 5 -> au[LipCornerDepressor]
    [] k = 6 -> BlinkValue(au)
    [] k = 7 -> au[CheekRaiser]
    [] k = 8 -> au[UpperLidRaiser]
    [] k = 9 -> au[InnerBrowRaiser]
    [] k = 10 -> au[OuterBrowRaiser]
    [] k = 11 -> au[NoseWrinkler]
    [] k = 12 -> au[BrowLowerer]
    [] k = 13 -> au[UpperLidRaiser]

\* The calls of add_morph_frame from the k-th on.
RECURSIVE AddMorphsFrom(_, _, _, _)
AddMorphsFrom(morph_vec, au, frame_no, k) ==
  IF k > Len(MorphNames) THEN morph_vec
  ELSE AddMorphsFrom(
         add_morph_frame(morph_vec, MorphNames[k], frame_no, MorphValue(au, k)),
         au, frame_no, k + 1)

estimate_facial_expression(morph_vec, au, frame_no) ==
  AddMorphsFrom(morph_vec, au, frame_no, 1)

(***************************************************************************)
(* Bone key frames                                                         *)
(***************************************************************************)
add_rotation_pose(frame_vec, rot, frame_no, bone_name) ==
  Append(frame_vec,
         [bonename |-> bone_name, number |-> frame_no,
          kind |-> "rotation", value |-> rot])

add_position_pose(frame_vec, pos, frame_no, bone_name) ==
  Append(frame_vec,
         [bonename |-> bone_name, number |-> frame_no,
          kind |-> "position", value |-> pos])

add_head_pose(frame_vec, rot, frame_no) ==
  add_rotation_pose(frame_vec, rot, frame_no, "atama")

add_center_frame(frame_vec, pos, frame_no) ==
  add_position_pose(frame_vec, pos, frame_no, "sentaa")

add_gaze_pose_OneEye(frame_vec, gazedir_left, gazedir_right, frame_no) ==
  add_rotation_pose(frame_vec, gazedir_right, frame_no, "hidarime")

\* The right gaze goes to the left-eye bone and the left gaze to the
\* right-eye bone.
add_gaze_pose(frame_vec, gazedir_left, gazedir_right, frame_no) ==
  add_rotation_pose(
    add_rotation_pose(frame_vec, gazedir_right, frame_no, "hidarime"),
    gazedir_left, frame_no, "migime")

EyeBones == {"hidarime", "migime"}

\* The search of CustomEstimateGaze for the eye's part among the names of the
\* hierarchical models: the last matching index (from 0), -1 when none.
FindPart(names, left_eye) ==
  LET wanted == IF left_eye THEN "left_eye_28" ELSE "right_eye_28"
      hits == { i \in 1 .. Len(names) : names[i] = wanted }
  IN IF hits = {} THEN -1
     ELSE (CHOOSE i \in hits : \A j \in hits : j <= i) - 1

\* What CustomEstimateGaze leaves in gaze_absolute: the zero vector when the
\* part is not found, the estimated direction otherwise.
CustomEstimateGaze(names, left_eye) ==
  IF FindPart(names, left_eye) = -1 THEN "zero_vector"
  ELSE IF left_eye THEN "gaze_left" ELSE "gaze_right"

(***************************************************************************)
(* What the collaborators may hand in                                      *)
(***************************************************************************)
\* A report vector from a function on ids, in ascending order of id.
RECURSIVE EntriesFrom(_, _)
EntriesFrom(f, ids) ==
  IF ids = {} THEN <<>>
  ELSE LET m == CHOOSE x \in ids : \A y \in ids : x <= y
       IN <<[first |-> AuName(m), second |-> f[m]]>> \o EntriesFrom(f, ids \ {m})

ReportOf(pres, ints) ==
  [presence |-> EntriesFrom(pres, DOMAIN pres),
   intensity |-> EntriesFrom(ints, DOMAIN ints)]

\* The action units the analyser classifies, and those it also regresses.
ClassIds == AUID
RegIds == AUID \ {LipSuck}

AllPresent == [id \in ClassIds |-> 1]
ZeroIntensity == [id \in RegIds |-> 0]

\* The reports of one frame explored in whole runs.
FrameReports ==
  { ReportOf(AllPresent, ZeroIntensity),
    \* jaw drop 0.6 (3.0 raw)
    ReportOf(AllPresent, [ZeroIntensity EXCEPT ![JawDrop] = 300]),
    \* blink 0.25, lid tightener 0.1
    ReportOf(AllPresent,
             [ZeroIntensity EXCEPT ![Blink] = 125, ![LidTightener] = 50]),
    \* above 5.0 and below 0, lip part alone, lip corner puller classified
    \* absent
    ReportOf([AllPresent EXCEPT ![LipCornerPuller] = 0],
             [ZeroIntensity EXCEPT ![CheekRaiser] = 600, ![BrowLowerer] = -50,
                                   ![LipPart] = 100, ![LipCornerPuller] = 250]),
    \* an intensity whose presence was not reported
    ReportOf([id \in ClassIds \ {LipCornerPuller} |-> 1],
             [ZeroIntensity EXCEPT ![LipCornerPuller] = 250]),
    \* a label whose number is outside the array
    ReportOf([id \in {JawDrop, 99} |-> 1], [id \in {JawDrop, 99} |-> 300]) }

\* The names of the hierarchical models explored.
ModelNames ==
  { <<>>,
    <<"left_eye_28">>,
    <<"mouth", "left_eye_28", "right_eye_28">> }

(***************************************************************************)
(* State of one run of read_face_vmd                                       *)
(***************************************************************************)
VARIABLES
  pc,            \* position in read_face_vmd
  frame_number,  \* the loop variable
  cap_pos,       \* frames the capture has handed out
  vmd_frame,     \* vmd.frame, as the mapper fills it
  vmd_morph,     \* vmd.morph, as the mapper fills it
  reports,       \* the analyser's current reports
  action_unit,   \* double action_unit[AU_SIZE]
  eye_model,     \* face_model.eye_model
  model_names,   \* face_model.hierarchical_model_names
  frames_log,    \* history: per frame read, its stream index and detection
  stages,        \* history: the whole-stream stages called so far
  oob,           \* history: indexes used outside valid[] and au[]
  out_open,      \* whether the ofstream opened
  file_written,  \* whether vmd.output reached the file
  ret            \* the value returned, -1 before the return

vars ==
  <<pc, frame_number, cap_pos, vmd_frame, vmd_morph, reports, action_unit,
    eye_model, model_names, frames_log, stages, oob, out_open, file_written, ret>>

doc == <<vmd_frame, vmd_morph>>
model == <<eye_model, model_names>>
io == <<out_open, file_written, ret>>

Init ==
  /\ pc = "open"
  /\ frame_number = 0
  /\ cap_pos = 0
  /\ vmd_frame = <<>>
  /\ vmd_morph = <<>>
  /\ reports = ReportOf(<<>>, <<>>)
  /\ action_unit = [i \in AuIndex |-> 0]
  /\ eye_model = FALSE
  /\ model_names = <<>>
  /\ frames_log = <<>>
  /\ stages = <<>>
  /\ oob = {}
  /\ out_open = FALSE
  /\ file_written = FALSE
  /\ ret = -1

\* cap.Open fails: "Open error", return 1.
OpenFail ==
  /\ pc = "open"
  /\ pc' = "done"
  /\ ret' = 1
  /\ UNCHANGED <<frame_number, cap_pos, doc, reports, action_unit, model,
                 frames_log, stages, oob, out_open, file_written>>

\* cap.Open succeeds; the face model and the analyser are constructed.
OpenOk ==
  /\ pc = "open"
  /\ pc' = "next_frame"
  /\ eye_model' \in BOOLEAN
  /\ model_names' \in ModelNames
  /\ UNCHANGED <<frame_number, cap_pos, doc, reports, action_unit,
                 frames_log, stages, oob, io>>

\* GetNextFrame hands out an image.
GetNextFrame ==
  /\ pc = "next_frame"
  /\ cap_pos < MaxFrames
  /\ cap_pos' = cap_pos + 1
  /\ pc' = "detect"
  /\ UNCHANGED <<frame_number, doc, reports, action_unit, model,
                 frames_log, stages, oob, io>>

\* GetNextFrame hands out an empty image: break.
EndOfStream ==
  /\ pc = "next_frame"
  /\ pc' = "smooth_and_reduce"
  /\ UNCHANGED <<frame_number, cap_pos, doc, reports, action_unit, model,
                 frames_log, stages, oob, io>>

DetectFail_NoIncrement ==
  /\ pc = "detect"
  /\ frames_log' = Append(frames_log, [src |-> cap_pos - 1, detected |-> FALSE])
  /\ pc' = "next_frame"
  /\ UNCHANGED <<frame_number, cap_pos, doc, reports, action_unit, model,
                 stages, oob, io>>

\* DetectLandmarksInVideo fails: continue, which runs frame_number++.
DetectFail ==
  /\ pc = "detect"
  /\ frames_log' = Append(frames_log, [src |-> cap_pos - 1, detected |-> FALSE])
  /\ frame_number' = frame_number + 1
  /\ pc' = "next_frame"
  /\ UNCHANGED <<cap_pos, doc, reports, action_unit, model, stages, oob, io>>

\* DetectLandmarksInVideo succeeds: head and centre key frames, then the
\* analyser predicts the action units of the frame.
DetectOk ==
  /\ pc = "detect"
  /\ frames_log' = Append(frames_log, [src |-> cap_pos - 1, detected |-> TRUE])
  /\ vmd_frame' = add_center_frame(
                    add_head_pose(vmd_frame, "rot_vmd", frame_number),
                    "center_pos", frame_number)
  /\ reports' \in FrameReports
  /\ pc' = "get_action_unit"
  /\ UNCHANGED <<frame_number, cap_pos, vmd_morph, action_unit, model,
                 stages, oob, io>>

\* get_action_unit(action_unit, face_analyser).  An index outside the arrays
\* writes past them: the run either goes on or is killed.
GetActionUnit ==
  /\ pc = "get_action_unit"
  /\ \E stale \in SUBSET UnsetValidIds(reports) :
       action_unit' = get_action_unit(reports, stale)
  /\ oob' = oob \cup OutOfRangeIds(reports)
  /\ \/ pc' = "estimate_facial_expression"
     \/ OutOfRangeIds(reports) # {} /\ pc' = "aborted"
  /\ UNCHANGED <<frame_number, cap_pos, doc, reports, model, frames_log,
                 stages, io>>

EstimateFacialExpression ==
  /\ pc = "estimate_facial_expression"
  /\ vmd_morph' = estimate_facial_expression(vmd_morph, action_unit, frame_number)
  /\ pc' = "gaze"
  /\ UNCHANGED <<frame_number, cap_pos, vmd_frame, reports, action_unit, model,
                 frames_log, stages, oob, io>>

\* if (face_model.eye_model) { both estimates; add_gaze_pose }, then the
\* loop's frame_number++.
EstimateGaze ==
  /\ pc = "gaze"
  /\ vmd_frame' =
       IF eye_model
       THEN add_gaze_pose(vmd_frame,
                          CustomEstimateGaze(model_names, TRUE),
                          CustomEstimateGaze(model_names, FALSE),
                          frame_number)
       ELSE vmd_frame
  /\ frame_number' = frame_number + 1
  /\ pc' = "next_frame"
  /\ UNCHANGED <<cap_pos, vmd_morph, reports, action_unit, model, frames_log,
                 stages, oob, io>>

(***************************************************************************)
(* The whole-stream stages.  Their bodies are in other translation units;  *)
(* what is modelled is the call, recorded in stages.                       *)
(***************************************************************************)
StageOrder ==
  <<"smooth_and_reduce", "refine_morph", "rename_morph", "rename_frame", "output">>

SmoothAndReduce ==
  /\ pc = "smooth_and_reduce"
  /\ stages' = Append(stages, "smooth_and_reduce")
  /\ pc' = "refine_morph"
  /\ UNCHANGED <<frame_number, cap_pos, doc, reports, action_unit, model,
                 frames_log, oob, io>>

RefineMorph_BeforeSmoothing ==
  /\ pc \in {"next_frame", "refine_morph"}
  /\ stages' = Append(stages, "refine_morph")
  /\ pc' = IF pc = "next_frame" THEN "smooth_and_reduce" ELSE "rename_morph"
  /\ UNCHANGED <<frame_number, cap_pos, doc, reports, action_unit, model,
                 frames_log, oob, io>>

RefineMorph ==
  /\ pc = "refine_morph"
  /\ stages' = Append(stages, "refine_morph")
  /\ pc' = "rename_morph"
  /\ UNCHANGED <<frame_number, cap_pos, doc, reports, action_unit, model,
                 frames_log, oob, io>>

RenameMorph ==
  /\ pc = "rename_morph"
  /\ stages' = Append(stages, "rename_morph")
  /\ pc' = "rename_frame"
  /\ UNCHANGED <<frame_number, cap_pos, doc, reports, action_unit, model,
                 frames_log, oob, io>>

RenameFrame ==
  /\ pc = "rename_frame"
  /\ stages' = Append(stages, "rename_frame")
  /\ pc' = "output"
  /\ UNCHANGED <<frame_number, cap_pos, doc, reports, action_unit, model,
                 frames_log, oob, io>>

\* ofstream out(vmd_file_name); vmd.output(out); out.close(); return 0.
\* The stream is not tested: when it failed to open, output writes nothing.
Output ==
  /\ pc = "output"
  /\ stages' = Append(stages, "output")
  /\ out_open' \in BOOLEAN
  /\ file_written' = out_open'
  /\ ret' = 0
  /\ pc' = "done"
  /\ UNCHANGED <<frame_number, cap_pos, doc, reports, action_unit, model,
                 frames_log, oob>>

Next ==
  \/ OpenFail
  \/ OpenOk
  \/ GetNextFrame
  \/ EndOfStream
  \/ DetectFail
  \/ DetectOk
  \/ GetActionUnit
  \/ EstimateFacialExpression
  \/ EstimateGaze
  \/ SmoothAndReduce
  \/ RefineMorph
  \/ RenameMorph
  \/ RenameFrame
  \/ Output

Spec == Init /\ [][Next]_vars

(***************************************************************************)
(* The mapper on its own: one detected frame, with a wide range of         *)
(* reports.  The initial states are the states of a run right after        *)
(* DetectOk on the frame of stream index k, the k frames before it having  *)
(* failed detection.                                                       *)
(***************************************************************************)
MouthRaw == {-50, 20, 25, 300}
LidRaw == {-50, 50, 600}
BlinkRaw == {0, 100, 105, 500}
OtherRaw == {0, 250}
AbsentSets == {{}, {Blink}, {JawDrop}, {LipTightener, LidTightener}}

MapperReports ==
  { ReportOf([id \in ClassIds |-> IF id \in t[7] THEN 0 ELSE 1],
             [id \in RegIds |->
                CASE id = JawDrop -> t[1]
                  [] id = LipPart -> t[2]
                  [] id = LipTightener -> t[3]
                  [] id = LidTightener -> t[4]
                  [] id = Blink -> t[5]
                  [] OTHER -> t[6]]) :
      t \in MouthRaw \X MouthRaw \X MouthRaw \X LidRaw \X BlinkRaw \X OtherRaw
            \X AbsentSets }

InitMapper ==
  \E k \in 0 .. (MaxFrames - 1) :
    /\ pc = "get_action_unit"
    /\ frame_number = k
    /\ cap_pos = k + 1
    /\ vmd_frame = add_center_frame(add_head_pose(<<>>, "rot_vmd", k),
                                    "center_pos", k)
    /\ vmd_morph = <<>>
    /\ reports \in MapperReports
    /\ action_unit = [i \in AuIndex |-> 0]
    /\ eye_model = FALSE
    /\ model_names = <<>>
    /\ frames_log = [i \in 1 .. (k + 1) |-> [src |-> i - 1, detected |-> (i = k + 1)]]
    /\ stages = <<>>
    /\ oob = {}
    /\ out_open = FALSE
    /\ file_written = FALSE
    /\ ret = -1

NextMapper ==
  \/ GetActionUnit
  \/ EstimateFacialExpression

SpecMapper == InitMapper /\ [][NextMapper]_vars

(***************************************************************************)
(* Properties                                                              *)
(***************************************************************************)
\* A weight brought into [0,1], written without ClampWeight.
Clamp01(x) == IF x < 0 THEN 0 ELSE IF x > One THEN One ELSE x

Range(f) == { f[i] : i \in DOMAIN f }

\* Stream indexes of the frames read so far, by the outcome of detection.
DetectedIdx == { e.src : e \in { x \in Range(frames_log) : x.detected } }
FailedIdx == { e.src : e \in { x \in Range(frames_log) : ~x.detected } }

\* Detected frames whose loop body has run to its end.
CompletedIdx == { n \in DetectedIdx : n < frame_number }

BoneCount(name, n) ==
  Cardinality({ i \in DOMAIN vmd_frame :
                  vmd_frame[i].bonename = name /\ vmd_frame[i].number = n })

MorphCount(name, n) ==
  Cardinality({ i \in DOMAIN vmd_morph :
                  vmd_morph[i].name = name /\ vmd_morph[i].frame = n })

\* The weight of the sample of morph name at frame n (there is one).
MorphWeight(name, n) ==
  LET i == CHOOSE j \in DOMAIN vmd_morph :
               vmd_morph[j].name = name /\ vmd_morph[j].frame = n
  IN vmd_morph[i].weight

\* The frame whose morphs estimate_facial_expression has just appended.
JustMapped == pc = "gaze"

\* C1: every morph sample in the morph list has a weight in [0,1]; of the
\* samples just appended, one whose value was above 1 holds 1 and one whose
\* value was below 0 holds 0.
C1_MorphWeightsClamped ==
  /\ \A i \in DOMAIN vmd_morph :
       vmd_morph[i].weight >= 0 /\ vmd_morph[i].weight <= One
  /\ JustMapped =>
       \A k \in DOMAIN MorphNames :
         LET v == MorphValue(action_unit, k)
             w == vmd_morph[Len(vmd_morph) - Len(MorphNames) + k].weight
         IN /\ v > One => w = One
            /\ v < 0 => w = 0
            /\ (v >= 0 /\ v <= One) => w = v

C1_Witness ==
  /\ JustMapped
  /\ Len(vmd_morph) > Len(MorphNames)
  /\ \E k \in DOMAIN MorphNames : MorphValue(action_unit, k) > One
  /\ \E k \in DOMAIN MorphNames : MorphValue(action_unit, k) < 0

\* C2: a return value of success implies that the output file was opened and
\* written.
C2_SuccessImpliesWritten ==
  (pc = "done" /\ ret = 0) => (out_open /\ file_written)

\* The eye model is missing: the face model has none, or the search of
\* CustomEstimateGaze finds none for one of the eyes.
EyeModelMissing ==
  \/ ~eye_model
  \/ FindPart(model_names, TRUE) = -1
  \/ FindPart(model_names, FALSE) = -1

\* C3: when the eye model is missing, no completed frame has a sample of
\* either eye bone, while its head, centre and morph samples are there.
C3_NoGazeWithoutEyeModel ==
  EyeModelMissing =>
    \A n \in CompletedIdx :
      /\ \A b \in EyeBones : BoneCount(b, n) = 0
      /\ BoneCount("atama", n) = 1
      /\ BoneCount("sentaa", n) = 1
      /\ \A k \in DOMAIN MorphNames : MorphCount(MorphNames[k], n) = 1

\* C4: a frame on which detection failed leaves no bone and no morph sample
\* with its index, adds nothing to the lists, and the frames after it keep
\* their stream indexes.
C4_FailedFrameSkipped ==
  /\ \A i \in DOMAIN frames_log : frames_log[i].src = i - 1
  /\ \A i \in DOMAIN vmd_frame : vmd_frame[i].number \in DetectedIdx
  /\ \A i \in DOMAIN vmd_morph : vmd_morph[i].frame \in DetectedIdx
  /\ \A n \in FailedIdx : BoneCount("atama", n) = 0 /\ MorphCount("a", n) = 0
  /\ \A n \in CompletedIdx : BoneCount("atama", n) = 1 /\ MorphCount("a", n) = 1
  /\ Len(vmd_morph) <= Len(MorphNames) * Cardinality(DetectedIdx)
  /\ Len(vmd_frame) <= 4 * Cardinality(DetectedIdx)

C4_Witness ==
  /\ pc = "next_frame"
  /\ Len(frames_log) = 3
  /\ frames_log[1].detected /\ ~frames_log[2].detected /\ frames_log[3].detected
  /\ MorphCount("a", 0) = 1 /\ MorphCount("a", 1) = 0 /\ MorphCount("a", 2) = 1

C6_BlinkOverride ==
  JustMapped =>
    /\ MorphCount("mabataki", frame_number) = 1
    /\ MorphWeight("mabataki", frame_number) =
         IF action_unit[Blink] > BlinkThreshold
         THEN One
         ELSE Clamp01(action_unit[LidTightener])

C6_Witness ==
  /\ JustMapped
  /\ action_unit[Blink] > BlinkThreshold
  /\ action_unit[LidTightener] < BlinkThreshold
  /\ MorphWeight("mabataki", frame_number) = One

\* The whole-stream stages run once the frame loop is left.
AfterLoop == pc \in Range(StageOrder) \cup {"done"}

\* C7: the stages are called only after the frame loop has ended, once each
\* and in the order of StageOrder; the mapper has run once per detected frame
\* and appends nothing once a stage has been called.
C7_StagesAfterLoop ==
  /\ [](/\ stages = SubSeq(StageOrder, 1, Len(stages))
        /\ (stages # <<>> => AfterLoop /\ pc # "smooth_and_reduce")
        /\ ((pc = "done" /\ ret = 0) => stages = StageOrder)
        /\ (AfterLoop /\ ret # 1 =>
              Len(vmd_morph) = Len(MorphNames) * Cardinality(DetectedIdx)))
  /\ [][stages # <<>> => UNCHANGED <<vmd_frame, vmd_morph, frames_log>>]_vars

C7_Witness ==
  /\ pc = "done"
  /\ ret = 0
  /\ stages = StageOrder
  /\ Cardinality(DetectedIdx) >= 2

\* The ids whose presence entry is non-zero, and the reported intensity of id.
PresentIds(rep) ==
  { AuId(rep.presence[k].first) :
      k \in { j \in DOMAIN rep.presence : rep.presence[j].second # 0 } }

ReportedIntensity(rep, id) ==
  rep.intensity[CHOOSE k \in DOMAIN rep.intensity : AuId(rep.intensity[k].first) = id].second

\* C8: after get_action_unit, the slot of an action unit reported present
\* holds its intensity over 5.0 and every other slot holds 0.
C8_SlotsFromCurrentReports ==
  pc = "estimate_facial_expression" =>
    \A id \in AuIndex :
      action_unit[id] =
        IF id \in PresentIds(reports) /\ id \in EntryIds(reports.intensity)
        THEN ReportedIntensity(reports, id) \div ACTION_UNIT_MAXVAL
        ELSE 0

\* C9: a report whose id is outside the array is ignored: nothing outside
\* indexes 0..45 is read or written and the run is not disturbed.
C9_OutOfRangeIgnored ==
  oob = {} /\ pc # "aborted"

\* C10: the "i" weight appended is the doubled lip-part intensity brought
\* into [0,1] when the "a" and the "u" weight of the frame are both below 0.1,
\* and 0 otherwise.
C10_MouthISuppressed ==
  JustMapped =>
    /\ MorphCount("i", frame_number) = 1
    /\ MorphWeight("a", frame_number) = Clamp01(action_unit[JawDrop] * 2)
    /\ MorphWeight("u", frame_number) = Clamp01(action_unit[LipTightener] * 2)
    /\ MorphWeight("i", frame_number) =
         IF /\ MorphWeight("a", frame_number) < MouthEpsilon
            /\ MorphWeight("u", frame_number) < MouthEpsilon
         THEN Clamp01(action_unit[LipPart] * 2)
         ELSE 0

C10_Witness ==
  /\ JustMapped
  /\ MorphWeight("a", frame_number) < MouthEpsilon
  /\ MorphWeight("u", frame_number) >= MouthEpsilon
  /\ action_unit[LipPart] > 0
  /\ MorphWeight("i", frame_number) = 0

====
